---- MODULE Spec2Model ----
(***************************************************************************)
(* Model of lib/amqp.js of node-amqp-wrapper: the gateway object returned  *)
(* by module.exports(config), its connect sequence, its two publish        *)
(* operations and the consume dispatcher with its ack/nack protocol.       *)
(* The transport (amqplib) is the environment: it completes each request   *)
(* exactly once, with an error or with success, and never throws.          *)
(***************************************************************************)
EXTENDS Integers, Sequences, FiniteSets, TLC

\* ------------------------------------------------------------------ bounds

\* connect() calls made on one gateway (SpecConnect)
MaxConnects == 2
\* publishToQueue()/publish() calls made on one gateway
MaxPublishes == 1
\* deliveries the transport hands to the consume callback
MaxDeliveries == 2
\* resolve calls made by the user's handlers in one behaviour
MaxResolves == 2

\* ------------------------------------------------------- JavaScript values

\* Scalars that are not structured messages are modelled as strings, with
\* these three tokens standing for the JavaScript values of the same name.
Undefined == "<undefined>"
Null == "<null>"
JsTrue == "<true>"
JsFalse == "<false>"

\* ToBoolean() of a scalar: what `!x`, `x || y`, `x && y` and `if (x)` test.
Truthy(v) == v \notin {Undefined, Null, JsFalse, ""}

\* Structured values (messages, parsed payloads): one record shape for all,
\* t is the kind, s the string (or the key of an object member), n the
\* number, c the children (array elements, object members, member value).
JNull == [t |-> "null", s |-> "", n |-> 0, c |-> <<>>]
JNum(n) == [t |-> "number", s |-> "", n |-> n, c |-> <<>>]
JStr(s) == [t |-> "string", s |-> s, n |-> 0, c |-> <<>>]
JArr(elems) == [t |-> "array", s |-> "", n |-> 0, c |-> elems]
JMember(key, val) == [t |-> "member", s |-> key, n |-> 0, c |-> <<val>>]
JObj(members) == [t |-> "object", s |-> "", n |-> 0, c |-> members]

\* typeof v
TypeOf(v) ==
  CASE v.t = "string" -> "string"
    [] v.t = "number" -> "number"
    [] OTHER -> "object"

\* JSON.stringify(v) for acyclic values whose strings need no escaping;
\* json-stringify-safe equals it on these.
RECURSIVE JSONStringify(_), JSONJoin(_)
JSONStringify(v) ==
  CASE v.t = "null" -> "null"
    [] v.t = "number" -> ToString(v.n)
    [] v.t = "string" -> "\"" \o v.s \o "\""
    [] v.t = "array" -> "[" \o JSONJoin(v.c) \o "]"
    [] v.t = "member" -> "\"" \o v.s \o "\":" \o JSONStringify(v.c[1])
    [] v.t = "object" -> "{" \o JSONJoin(v.c) \o "}"

JSONJoin(elems) ==
  IF elems = <<>> THEN ""
  ELSE JSONStringify(elems[1]) \o (IF Len(elems) > 1 THEN "," ELSE "")
         \o JSONJoin(Tail(elems))

stringifysafe(v) == JSONStringify(v)

\* The JSON texts JSON.parse is asked about are those of JsonUniverse in
\* their canonical form; every other text of Payloads is a syntax error.
JsonUniverse ==
  { JNull, JNum(1), JStr("x"), JArr(<<JNum(1)>>), JObj(<<>>),
    JObj(<<JMember("a", JNum(1))>>), JObj(<<JMember("id", JNum(1))>>) }

\* the canonical text of each value of JsonUniverse
JsonText == [v \in JsonUniverse |-> JSONStringify(v)]

\* JSON.parse(text): the value, or a thrown SyntaxError.
JSONParse(text) ==
  IF \E v \in JsonUniverse : JsonText[v] = text
  THEN [ok |-> TRUE, value |-> CHOOSE v \in JsonUniverse : JsonText[v] = text]
  ELSE [ok |-> FALSE, value |-> JNull]

\* new Buffer(string) and buffer.toString(): UTF-8 bytes of an ASCII string.
NewBuffer(str) == [bytes |-> str]
BufferToString(buf) == buf.bytes

\* ------------------------------------------------------------ configuration

Target(name, routingKey) == [name |-> name, routingKey |-> routingKey]

\* config.queues.publish: absent, an ordered list of targets, or (a
\* misconfiguration) one target object in place of the list.
NoPublish == [kind |-> "undefined", list |-> <<>>]
PublishList(list) == [kind |-> "array", list |-> list]
PublishObject(target) == [kind |-> "object", list |-> <<target>>]

\* config.queues.consume: absent, or a record with a queue name.
NoConsume == [kind |-> "undefined", name |-> Undefined]
ConsumeQueue(name) == [kind |-> "object", name |-> name]

Cfg(given, url, exchange, prefetch, hasQueues, pub, cons) ==
  [given |-> given, url |-> url, exchange |-> exchange, prefetch |-> prefetch,
   hasQueues |-> hasQueues, publish |-> pub, consume |-> cons]

Targets ==
  << Target("orders", "orders.created"), Target("audit", "audit.log"),
     Target("orders", "orders.duplicate") >>

\* no argument at all
CfgAbsent == Cfg(FALSE, Undefined, Undefined, 0, FALSE, NoPublish, NoConsume)
CfgNoUrl == Cfg(TRUE, Undefined, "ex", 0, TRUE, PublishList(Targets), ConsumeQueue("q1"))
CfgEmptyUrl == Cfg(TRUE, "", "ex", 0, TRUE, PublishList(Targets), ConsumeQueue("q1"))
CfgNoExchange ==
  Cfg(TRUE, "amqp://broker", Undefined, 0, TRUE, PublishList(Targets), ConsumeQueue("q1"))
CfgBoth == Cfg(TRUE, "amqp://broker", "ex", 0, TRUE, PublishList(Targets), ConsumeQueue("q1"))
CfgPublishOnly == Cfg(TRUE, "amqp://broker", "ex", 0, TRUE, PublishList(Targets), NoConsume)
CfgConsumeOnly == Cfg(TRUE, "amqp://broker", "ex", 1, TRUE, NoPublish, ConsumeQueue("q1"))
CfgEmptyQueues == Cfg(TRUE, "amqp://broker", "ex", 0, TRUE, NoPublish, NoConsume)
CfgNoQueues == Cfg(TRUE, "amqp://broker", "ex", 0, FALSE, NoPublish, NoConsume)
CfgPublishObject ==
  Cfg(TRUE, "amqp://broker", "ex", 0, TRUE, PublishObject(Targets[1]), ConsumeQueue(""))

InvalidConfigs == {CfgAbsent, CfgNoUrl, CfgEmptyUrl, CfgNoExchange}

Configs ==
  InvalidConfigs \cup
    {CfgBoth, CfgPublishOnly, CfgConsumeOnly, CfgEmptyQueues, CfgNoQueues, CfgPublishObject}

\* config.prefetch || 10
DefaultPrefetch == 10

\* ---------------------------------------------------------------- state

VARIABLES
  gw,          \* "none": module.exports not called yet; "constructed": it
               \* returned ret; "threw": it threw
  config,      \* the config object the gateway closes over
  channel,     \* var channel: 0 is undefined, i the channel made for connect call i
  conn,        \* conn[i]: the i-th connect(cb) call
  pubs,        \* channel.publish calls issued, in order
  consumeLog,  \* channel.consume calls issued, in order
  deliveries,  \* deliveries handed to callback(message), in order of arrival
  calls,       \* publish calls and handler resolve calls made so far
  last         \* the last API call that can throw, and how it ended

vars == <<gw, config, channel, conn, pubs, consumeLog, deliveries, calls, last>>

NoChannel == 0

ConnectIds == 1..MaxConnects

\* One transport request of a connect sequence: what was asked, with which
\* argument, on which channel (NoChannel: on the library or the connection).
Step(op, arg, ch) == [op |-> op, arg |-> arg, ch |-> ch]

\* The error the transport reports when the step `op` fails.
ErrOf(op) == "Error: " \o op \o " failed"

IdleConn == [pc |-> "idle", steps |-> <<>>, results |-> <<>>, cb |-> <<>>, tasks |-> <<>>]

\* An API call and how it ended: threw is "none" when it returned; chan and
\* pubsBefore are the channel variable and the number of publishes issued
\* when it was made.
NoCall == [op |-> "none", threw |-> "none", chan |-> NoChannel, pubsBefore |-> 0,
           name |-> Undefined, message |-> JNull, options |-> Undefined,
           callback |-> Undefined]

Init ==
  /\ gw = "none"
  /\ config = CfgAbsent
  /\ channel = NoChannel
  /\ conn = [i \in ConnectIds |-> IdleConn]
  /\ pubs = <<>>
  /\ consumeLog = <<>>
  /\ deliveries = <<>>
  /\ calls = [publish |-> 0, resolve |-> 0]
  /\ last = NoCall

\* ------------------------------------------------------------ construction

\* InvalidConfig without its test of config.exchange
InvalidConfigUrlOnly(cfg) == ~cfg.given \/ ~Truthy(cfg.url)

InvalidConfig(cfg) == ~cfg.given \/ ~Truthy(cfg.url) \/ ~Truthy(cfg.exchange)

\* module.exports with `config.prefetch = 10` in place of the default
ConstructFixedPrefetch(cfg) ==
  /\ gw = "none"
  /\ IF InvalidConfig(cfg)
     THEN /\ gw' = "threw"
          /\ config' = cfg
          /\ last' = [NoCall EXCEPT !.op = "module.exports",
                                    !.threw = "Error: amqp-wrapper: Invalid config"]
     ELSE /\ gw' = "constructed"
          /\ config' = [cfg EXCEPT !.prefetch = DefaultPrefetch]
          /\ last' = [NoCall EXCEPT !.op = "module.exports"]
  /\ UNCHANGED <<channel, conn, pubs, consumeLog, deliveries, calls>>

\* module.exports(config)
Construct(cfg) ==
  /\ gw = "none"
  /\ IF InvalidConfig(cfg)
     THEN /\ gw' = "threw"
          /\ config' = cfg
          /\ last' = [NoCall EXCEPT !.op = "module.exports",
                                    !.threw = "Error: amqp-wrapper: Invalid config"]
     ELSE /\ gw' = "constructed"
          /\ config' = [cfg EXCEPT !.prefetch =
                          IF cfg.prefetch # 0 THEN cfg.prefetch ELSE DefaultPrefetch]
          /\ last' = [NoCall EXCEPT !.op = "module.exports"]
  /\ UNCHANGED <<channel, conn, pubs, consumeLog, deliveries, calls>>

\* ---------------------------------------------------------------- connect

\* cb(err) of connect call i
CallCb(c, err) == [c EXCEPT !.cb = Append(@, err), !.pc = "done"]

\* connect(cb): amqp.connect(config.url, createChannel)
connect(i) ==
  /\ gw = "constructed"
  /\ conn[i].pc = "idle"
  /\ \A j \in ConnectIds : j < i => conn[j].pc # "idle"
  /\ conn' = [conn EXCEPT ![i] =
       [@ EXCEPT !.pc = "connecting",
                 !.steps = Append(@, Step("connect", config.url, NoChannel))]]
  /\ UNCHANGED <<gw, config, channel, pubs, consumeLog, deliveries, calls, last>>

\* createChannel(err, conn), called by the transport when amqp.connect ends
createChannel(i, err) ==
  /\ conn[i].pc = "connecting"
  /\ LET c == [conn[i] EXCEPT !.results = Append(@, err)] IN
     conn' = [conn EXCEPT ![i] =
       IF Truthy(err) THEN CallCb(c, err)
       ELSE [c EXCEPT !.pc = "creatingChannel",
                      !.steps = Append(@, Step("createConfirmChannel", Undefined, NoChannel))]]
  /\ UNCHANGED <<gw, config, channel, pubs, consumeLog, deliveries, calls, last>>

\* assertExchange(err, ch), called when conn.createConfirmChannel ends
assertExchange(i, err) ==
  /\ conn[i].pc = "creatingChannel"
  /\ LET c == [conn[i] EXCEPT !.results = Append(@, err)] IN
     IF Truthy(err)
     THEN /\ conn' = [conn EXCEPT ![i] = CallCb(c, err)]
          /\ UNCHANGED channel
     ELSE /\ channel' = i
          /\ conn' = [conn EXCEPT ![i] =
               [c EXCEPT !.pc = "assertingExchange",
                         !.steps = Append(@, Step("assertExchange", config.exchange, i))]]
  /\ UNCHANGED <<gw, config, pubs, consumeLog, deliveries, calls, last>>

\* queueSetup.setupForPublish(channel, config, callback): one asynchronous
\* unit of work on the channel, ended once with an error or with success
setupForPublish(ch) == Step("setupForPublish", Undefined, ch)

\* queueSetup.setupForConsume(channel, config, callback): declares and binds
\* the consume queue; one asynchronous unit of work as well
setupForConsume(ch) == Step("setupForConsume", config.consume.name, ch)

\* the tasks pushed when publish is tested for truthiness only, without
\* `instanceof Array`
SetupTasksAnyPublish ==
  (IF config.publish.kind # "undefined"
   THEN <<"setupForPublish">> ELSE <<>>)
  \o (IF config.consume.kind # "undefined" /\ Truthy(config.consume.name)
      THEN <<"setupForConsume">> ELSE <<>>)

\* the tasks assertQueues pushes, in order
SetupTasks ==
  (IF config.publish.kind # "undefined" /\ config.publish.kind = "array"
   THEN <<"setupForPublish">> ELSE <<>>)
  \o (IF config.consume.kind # "undefined" /\ Truthy(config.consume.name)
      THEN <<"setupForConsume">> ELSE <<>>)

\* a runner that calls every task left at once, as async.parallel does
RunParallel(c, tasks) ==
  IF tasks = <<>> THEN CallCb([c EXCEPT !.tasks = <<>>], Null)
  ELSE [c EXCEPT !.pc = "runningTask",
                 !.tasks = tasks,
                 !.steps = @ \o [k \in 1..Len(tasks) |->
                                   IF tasks[k] = "setupForPublish"
                                   THEN setupForPublish(channel)
                                   ELSE setupForConsume(channel)]]

\* async.series(tasks, cb) from its k-th task on: with none left cb(null),
\* else the task is called, with the channel the closure holds now
RunSeries(c, tasks) ==
  IF tasks = <<>> THEN CallCb([c EXCEPT !.tasks = <<>>], Null)
  ELSE [c EXCEPT !.pc = "runningTask",
                 !.tasks = tasks,
                 !.steps = Append(@, IF tasks[1] = "setupForPublish"
                                     THEN setupForPublish(channel)
                                     ELSE setupForConsume(channel))]

\* assertQueues without its `if (err) return cb(err)`
assertQueuesIgnoreErr(i, err) ==
  /\ conn[i].pc = "assertingExchange"
  /\ LET c == [conn[i] EXCEPT !.results = Append(@, err)] IN
     conn' = [conn EXCEPT ![i] =
       IF ~config.hasQueues THEN [c EXCEPT !.pc = "threw"]
       ELSE RunSeries(c, SetupTasks)]
  /\ UNCHANGED <<gw, config, channel, pubs, consumeLog, deliveries, calls, last>>

\* assertQueues(err), called when channel.assertExchange ends
assertQueues(i, err) ==
  /\ conn[i].pc = "assertingExchange"
  /\ LET c == [conn[i] EXCEPT !.results = Append(@, err)] IN
     conn' = [conn EXCEPT ![i] =
       IF Truthy(err) THEN CallCb(c, err)
       ELSE IF ~config.hasQueues
         \* config.queues.publish of undefined: a TypeError inside the
         \* transport's callback, and cb is never called
         THEN [c EXCEPT !.pc = "threw"]
       ELSE RunSeries(c, SetupTasks)]
  /\ UNCHANGED <<gw, config, channel, pubs, consumeLog, deliveries, calls, last>>

\* a series that calls cb(null) when its first task succeeds and runs no other
SeriesCallbackFirstOnly(c, err) ==
  IF Truthy(err) THEN CallCb(c, err) ELSE CallCb([c EXCEPT !.tasks = <<>>], Null)

\* the callback async.series hands to a task: an error ends the series with
\* cb(err), success runs the next task
SeriesCallback(c, err) ==
  IF Truthy(err) THEN CallCb(c, err) ELSE RunSeries(c, Tail(c.tasks))

\* setupForPublish calls back
setupForPublishDone(i, err) ==
  /\ conn[i].pc = "runningTask"
  /\ conn[i].tasks[1] = "setupForPublish"
  /\ conn' = [conn EXCEPT ![i] =
       SeriesCallback([conn[i] EXCEPT !.results = Append(@, err)], err)]
  /\ UNCHANGED <<gw, config, channel, pubs, consumeLog, deliveries, calls, last>>

\* setupForConsume calls back
setupForConsumeDone(i, err) ==
  /\ conn[i].pc = "runningTask"
  /\ conn[i].tasks[1] = "setupForConsume"
  /\ conn' = [conn EXCEPT ![i] =
       SeriesCallback([conn[i] EXCEPT !.results = Append(@, err)], err)]
  /\ UNCHANGED <<gw, config, channel, pubs, consumeLog, deliveries, calls, last>>

\* the connect sequence of call i, driven by the transport's completions
ConnectSequence(i) ==
  \/ connect(i)
  \/ \E err \in {Null, ErrOf("connect")} : createChannel(i, err)
  \/ \E err \in {Null, ErrOf("createConfirmChannel")} : assertExchange(i, err)
  \/ \E err \in {Null, ErrOf("assertExchange")} : assertQueues(i, err)
  \/ \E err \in {Null, ErrOf("setupForPublish")} : setupForPublishDone(i, err)
  \/ \E err \in {Null, ErrOf("setupForConsume")} : setupForConsumeDone(i, err)

\* ---------------------------------------------------------------- publish

\* channel.publish(exchange, routingKey, content, options, callback) on ch
Pub(ch, exchange, routingKey, content, options, callback) ==
  [ch |-> ch, exchange |-> exchange, routingKey |-> routingKey,
   content |-> content, options |-> options, callback |-> callback]

\* a lookup that returns the last element whose name is name
FindLast(collection, name) ==
  LET hits == IF collection.kind = "array"
              THEN {k \in 1..Len(collection.list) : collection.list[k].name = name}
              ELSE {} IN
  IF hits = {} THEN [found |-> FALSE, target |-> Target(Undefined, Undefined)]
  ELSE [found |-> TRUE,
        target |-> collection.list[CHOOSE k \in hits : \A j \in hits : k >= j]]

\* _.find(collection, {'name': name}): the first element whose name is name;
\* nothing is found in an absent collection, nor among the property values
\* (strings) of a single target object
Find(collection, name) ==
  LET hits == IF collection.kind = "array"
              THEN {k \in 1..Len(collection.list) : collection.list[k].name = name}
              ELSE {} IN
  IF hits = {} THEN [found |-> FALSE, target |-> Target(Undefined, Undefined)]
  ELSE [found |-> TRUE,
        target |-> collection.list[CHOOSE k \in hits : \A j \in hits : k <= j]]

\* if (typeof message === 'object') message = stringifysafe(message)
Serialize(message) ==
  IF TypeOf(message) = "object" THEN JStr(stringifysafe(message)) ELSE message

\* publishToQueue reading the routing key of a lookup that found nothing as
\* undefined, and publishing with it
publishToQueueLenient(name, message, callback) ==
  /\ gw = "constructed"
  /\ calls.publish < MaxPublishes
  /\ calls' = [calls EXCEPT !.publish = @ + 1]
  /\ LET text == Serialize(message)
         publishQueue == Find(config.publish, name)
         call == [NoCall EXCEPT !.op = "publishToQueue", !.chan = channel,
                                !.pubsBefore = Len(pubs), !.name = name,
                                !.message = message, !.callback = callback]
     IN
     IF ~config.hasQueues \/ channel = NoChannel
     THEN /\ last' = [call EXCEPT !.threw = "TypeError"]
          /\ UNCHANGED pubs
     ELSE /\ last' = call
          /\ pubs' = Append(pubs, Pub(channel, config.exchange,
                                      publishQueue.target.routingKey,
                                      NewBuffer(text.s), "{}", callback))
  /\ UNCHANGED <<gw, config, channel, conn, consumeLog, deliveries>>

\* publishToQueue(name, message, callback)
publishToQueue(name, message, callback) ==
  /\ gw = "constructed"
  /\ calls.publish < MaxPublishes
  /\ calls' = [calls EXCEPT !.publish = @ + 1]
  /\ LET text == Serialize(message)
         publishQueue == Find(config.publish, name)
         call == [NoCall EXCEPT !.op = "publishToQueue", !.chan = channel,
                                !.pubsBefore = Len(pubs), !.name = name,
                                !.message = message, !.callback = callback]
     IN
     \* config.queues.publish of undefined, channel.publish of undefined and
     \* publishQueue.routingKey of undefined each throw a TypeError
     IF ~config.hasQueues \/ channel = NoChannel \/ ~publishQueue.found
     THEN /\ last' = [call EXCEPT !.threw = "TypeError"]
          /\ UNCHANGED pubs
     ELSE /\ last' = call
          /\ pubs' = Append(pubs, Pub(channel, config.exchange,
                                      publishQueue.target.routingKey,
                                      NewBuffer(text.s), "{}", callback))
  /\ UNCHANGED <<gw, config, channel, conn, consumeLog, deliveries>>

\* publish passing {} for the options, as publishToQueue does
publishDropOptions(routingKey, message, options, callback) ==
  /\ gw = "constructed"
  /\ calls.publish < MaxPublishes
  /\ calls' = [calls EXCEPT !.publish = @ + 1]
  /\ LET text == Serialize(message)
         call == [NoCall EXCEPT !.op = "publish", !.chan = channel,
                                !.pubsBefore = Len(pubs), !.name = routingKey,
                                !.message = message, !.options = options,
                                !.callback = callback]
     IN
     IF channel = NoChannel
     THEN /\ last' = [call EXCEPT !.threw = "TypeError"]
          /\ UNCHANGED pubs
     ELSE /\ last' = call
          /\ pubs' = Append(pubs, Pub(channel, config.exchange, routingKey,
                                      NewBuffer(text.s), "{}", callback))
  /\ UNCHANGED <<gw, config, channel, conn, consumeLog, deliveries>>

\* publish(routingKey, message, options, callback)
publish(routingKey, message, options, callback) ==
  /\ gw = "constructed"
  /\ calls.publish < MaxPublishes
  /\ calls' = [calls EXCEPT !.publish = @ + 1]
  /\ LET text == Serialize(message)
         call == [NoCall EXCEPT !.op = "publish", !.chan = channel,
                                !.pubsBefore = Len(pubs), !.name = routingKey,
                                !.message = message, !.options = options,
                                !.callback = callback]
     IN
     IF channel = NoChannel
     THEN /\ last' = [call EXCEPT !.threw = "TypeError"]
          /\ UNCHANGED pubs
     ELSE /\ last' = call
          /\ pubs' = Append(pubs, Pub(channel, config.exchange, routingKey,
                                      NewBuffer(text.s), options, callback))
  /\ UNCHANGED <<gw, config, channel, conn, consumeLog, deliveries>>

\* what callers pass to the publish operations
Names == {"orders", "audit", "missing"}
RoutingKeys == {"k.a", "orders.created"}
Messages == {JStr("hello"), JObj(<<JMember("id", JNum(1))>>), JNull}
Options == {Undefined, "{persistent: true}"}
Callbacks == {"cbA", "cbB"}

\* ---------------------------------------------------------------- consume

\* channel.consume(queue, callback, {noAck: false}) on ch
Consume(ch, queue) == [ch |-> ch, queue |-> queue, noAck |-> JsFalse]

\* consume(handleMessage); the application registers one handler for the
\* queue, so it calls consume again only when the call before threw
consume ==
  /\ gw = "constructed"
  /\ consumeLog = <<>>
  /\ LET call == [NoCall EXCEPT !.op = "consume", !.chan = channel,
                                !.pubsBefore = Len(pubs)] IN
     \* channel.consume of undefined and config.queues.consume.name of
     \* undefined each throw a TypeError
     IF channel = NoChannel \/ ~config.hasQueues \/ config.consume.kind = "undefined"
     THEN /\ last' = [call EXCEPT !.threw = "TypeError"]
          /\ UNCHANGED consumeLog
     ELSE /\ last' = call
          /\ consumeLog' = Append(consumeLog, Consume(channel, config.consume.name))
  /\ UNCHANGED <<gw, config, channel, conn, pubs, deliveries, calls>>

\* channel.ack(message) and channel.nack(message, multiple, requeue) on ch;
\* tag identifies the message
Ack(ch, tag) ==
  [op |-> "ack", ch |-> ch, tag |-> tag, multiple |-> Undefined, requeue |-> Undefined]
Nack(ch, tag, multiple, requeue) ==
  [op |-> "nack", ch |-> ch, tag |-> tag, multiple |-> multiple, requeue |-> requeue]

\* done without `if (requeue === undefined) requeue = false`
doneNoDefault(tag, err, requeue) ==
  IF Truthy(err) THEN Nack(channel, tag, JsFalse, requeue) ELSE Ack(channel, tag)

\* done that settles the newest delivery, as if `message` were shared by all
\* invocations of callback
doneNewest(tag, err, requeue) ==
  LET rq == IF requeue = Undefined THEN JsFalse ELSE requeue
      newest == IF tag > Len(deliveries) THEN tag ELSE Len(deliveries) IN
  IF Truthy(err) THEN Nack(channel, newest, JsFalse, rq) ELSE Ack(channel, newest)

\* done(err, requeue) of the delivery tag: the transport call it makes
done(tag, err, requeue) ==
  LET rq == IF requeue = Undefined THEN JsFalse ELSE requeue IN
  IF Truthy(err) THEN Nack(channel, tag, JsFalse, rq) ELSE Ack(channel, tag)

\* one call of done: by the handler (its resolve) or by the catch block
DoneCall(from, err, requeue) == [from |-> from, err |-> err, requeue |-> requeue]

\* the transport calls of a sequence of done calls
RECURSIVE DoneAll(_, _)
DoneAll(tag, dcalls) ==
  IF dcalls = <<>> THEN <<>>
  ELSE <<done(tag, dcalls[1].err, dcalls[1].requeue)>> \o DoneAll(tag, Tail(dcalls))

\* the try block of callback(message): decode, parse, call the handler, which
\* makes the resolve calls `sync` before it returns or (throws) throws an Error
TryBlock(message, sync, throws) ==
  LET messagePayload == BufferToString(message.content)
      parsedPayload == JSONParse(messagePayload) IN
  IF ~parsedPayload.ok
  THEN [handler |-> <<>>, dones |-> <<>>, threw |-> TRUE, error |-> "SyntaxError"]
  ELSE [handler |-> <<parsedPayload.value>>, dones |-> sync, threw |-> throws,
        error |-> IF throws THEN "Error: handler threw" ELSE Null]

\* the delivery callback(message) leaves behind: the channel it came on, its
\* content, the payloads the handler was called with, whether the handler
\* threw, the done calls made and their transport calls, and whether an
\* exception reached the transport that called callback
Delivery(message, try, dcalls, propagated) ==
  [ch |-> message.ch, content |-> message.content, handler |-> try.handler,
   threw |-> try.threw /\ try.handler # <<>>,
   dones |-> dcalls, acks |-> DoneAll(message.tag, dcalls), propagated |-> propagated]

\* callback whose catch block asks for a requeue: done(error, true)
callbackRequeue(message, sync, throws) ==
  LET try == TryBlock(message, sync, throws) IN
  Delivery(message, try,
           try.dones \o (IF try.threw THEN <<DoneCall("catch", try.error, JsTrue)>>
                         ELSE <<>>),
           FALSE)

\* callback without try and catch: what is thrown reaches the transport
callbackNoCatch(message, sync, throws) ==
  LET try == TryBlock(message, sync, throws) IN
  Delivery(message, try, try.dones, try.threw)

\* callback that settles by itself a delivery whose handler returned without
\* a resolve call
callbackAutoAck(message, sync, throws) ==
  LET try == TryBlock(message, sync, throws) IN
  Delivery(message, try,
           try.dones \o (IF try.threw THEN <<DoneCall("catch", try.error, JsFalse)>>
                         ELSE IF try.dones = <<>>
                           THEN <<DoneCall("return", Null, Undefined)>>
                         ELSE <<>>),
           FALSE)

\* callback(message): the try block, and done(error, false) in the catch
\* block, which catches whatever the try block throws
callback(message, sync, throws) ==
  LET try == TryBlock(message, sync, throws) IN
  Delivery(message, try,
           try.dones \o (IF try.threw THEN <<DoneCall("catch", try.error, JsFalse)>>
                         ELSE <<>>),
           FALSE)

\* what the handler passes to resolve
DoneArgs == {DoneCall("handler", e, r) :
               e \in {Null, "Error: rejected"}, r \in {Undefined, JsTrue}}

\* payloads of inbound deliveries
Payloads == {"{\"a\":1}", "not-json", "{\"a\":"}

\* the sequences of at most n resolve calls a handler can make before it
\* returns
SyncCalls == [n \in 0..MaxResolves |-> UNION {[1..k -> DoneArgs] : k \in 0..n}]

\* the deliveries of channel ch the transport still waits for: those with no
\* ack or nack issued on ch
Unsettled(ch) ==
  {d \in 1..Len(deliveries) :
     /\ deliveries[d].ch = ch
     /\ \A k \in 1..Len(deliveries[d].acks) : deliveries[d].acks[k].ch # ch}

\* the backpressure of the transport: the channel is configured with
\* config.prefetch, and the broker hands over no further delivery while that
\* many are unsettled
TransportMayDeliver(ch) == Cardinality(Unsettled(ch)) < config.prefetch

\* the consumer is alive: no exception has left callback(message), which
\* would end the process that runs the dispatcher
DispatcherRunning == \A d \in 1..Len(deliveries) : ~deliveries[d].propagated

\* the transport delivers a message on a channel that has a consumer; the
\* handler, if it is invoked, makes the resolve calls `sync` and then returns
\* or throws
Deliver(ch, payload) ==
  /\ \E k \in 1..Len(consumeLog) : consumeLog[k].ch = ch
  /\ Len(deliveries) < MaxDeliveries
  /\ TransportMayDeliver(ch)
  /\ DispatcherRunning
  /\ \E sync \in SyncCalls[MaxResolves - calls.resolve], throws \in BOOLEAN :
       LET message == [ch |-> ch, tag |-> Len(deliveries) + 1,
                       content |-> NewBuffer(payload)]
           d == callback(message, sync, throws) IN
       \* a handler that is not invoked has no behaviour to choose
       /\ d.handler = <<>> => sync = <<>> /\ ~throws
       /\ deliveries' = Append(deliveries, d)
       /\ calls' = [calls EXCEPT !.resolve = @ + Len(sync)]
  /\ UNCHANGED <<gw, config, channel, conn, pubs, consumeLog, last>>

\* a handler that was invoked calls resolve after it returned
Resolve(tag, args) ==
  /\ tag \in 1..Len(deliveries)
  /\ deliveries[tag].handler # <<>>
  /\ calls.resolve < MaxResolves
  /\ calls' = [calls EXCEPT !.resolve = @ + 1]
  /\ deliveries' = [deliveries EXCEPT ![tag] =
       [@ EXCEPT !.dones = Append(@, args),
                 !.acks = Append(@, done(tag, args.err, args.requeue))]]
  /\ UNCHANGED <<gw, config, channel, conn, pubs, consumeLog, last>>

\* ---------------------------------------------------------- specifications

NextConnect ==
  \/ \E cfg \in Configs : Construct(cfg)
  \/ \E i \in ConnectIds : ConnectSequence(i)

\* construction and any number of (possibly overlapping) connect calls
SpecConnect == Init /\ [][NextConnect]_vars

NextGateway ==
  \/ \E cfg \in Configs : Construct(cfg)
  \/ ConnectSequence(1)
  \/ \E name \in Names, message \in Messages, cb \in Callbacks :
       publishToQueue(name, message, cb)
  \/ \E routingKey \in RoutingKeys, message \in Messages, options \in Options,
        cb \in Callbacks : publish(routingKey, message, options, cb)
  \/ consume

\* construction, one connect call, and the calls of the application-facing
\* API at any moment
SpecGateway == Init /\ [][NextGateway]_vars

NextConsume ==
  \/ \E cfg \in Configs : Construct(cfg)
  \/ ConnectSequence(1)
  \/ consume
  \/ \E ch \in ConnectIds, payload \in Payloads : Deliver(ch, payload)
  \/ \E tag \in 1..MaxDeliveries, args \in DoneArgs : Resolve(tag, args)

\* construction, one connect call, consume and the deliveries of the transport
SpecConsume == Init /\ [][NextConsume]_vars

NextReconnect ==
  \/ \E cfg \in {CfgAbsent, CfgBoth, CfgConsumeOnly} : Construct(cfg)
  \/ \E i \in ConnectIds : ConnectSequence(i)
  \/ consume
  \/ \E ch \in ConnectIds, payload \in {"{\"a\":1}", "not-json"} : Deliver(ch, payload)
  \/ \E tag \in 1..MaxDeliveries, args \in DoneArgs : Resolve(tag, args)

\* a gateway with a consume target whose application calls connect again
\* while the consumer of the first channel receives and resolves deliveries
SpecReconnect == Init /\ [][NextReconnect]_vars

\* ------------------------------------------------------------------ claims

\* the gateway was constructed, or its construction tried, with cfg
ConfigIs(cfg) == gw # "none" /\ [config EXCEPT !.prefetch = cfg.prefetch] = cfg

\* what a delivery's k-th done call made the transport do, without the channel
Issued(d, k) ==
  [op |-> deliveries[d].acks[k].op, tag |-> deliveries[d].acks[k].tag,
   multiple |-> deliveries[d].acks[k].multiple,
   requeue |-> deliveries[d].acks[k].requeue]

IssuedAck(d) == [op |-> "ack", tag |-> d, multiple |-> Undefined, requeue |-> Undefined]
IssuedNack(d, requeue) ==
  [op |-> "nack", tag |-> d, multiple |-> JsFalse, requeue |-> requeue]

\* C1: a delivery gets at most one ack or nack in all, whatever its handler
\* does (resolve once, several times, resolve and then throw, resolve later).
AtMostOneResolution ==
  \A d \in 1..Len(deliveries) : Len(deliveries[d].acks) <= 1

\* C2: each resolve call of a handler issues exactly one transport call for
\* its delivery: ack when it has no error, whatever the flag;
\* nack(multiple=false, requeue=false) for resolve(err);
\* nack(multiple=false, requeue=true) for resolve(err, true).
ResolveIssuesItsOutcome ==
  \A d \in 1..Len(deliveries) :
    /\ Len(deliveries[d].acks) = Len(deliveries[d].dones)
    /\ \A k \in 1..Len(deliveries[d].dones) :
         LET call == deliveries[d].dones[k] IN
         call.from = "handler" =>
           /\ call.err = Null => Issued(d, k) = IssuedAck(d)
           /\ call.err # Null /\ call.requeue = Undefined =>
                Issued(d, k) = IssuedNack(d, JsFalse)
           /\ call.err # Null /\ call.requeue = JsTrue =>
                Issued(d, k) = IssuedNack(d, JsTrue)

\* a handler resolved one delivery twice, first resolve(err, true), then
\* resolve(null, true), and another call was resolve(err)
ResolveIssuesItsOutcomeWitness ==
  \E d \in 1..Len(deliveries) :
    /\ Len(deliveries[d].dones) = 2
    /\ deliveries[d].dones[1] = DoneCall("handler", "Error: rejected", JsTrue)
    /\ deliveries[d].dones[2] = DoneCall("handler", Null, JsTrue)

\* the payloads of Payloads that are not JSON
InvalidJsonTexts == {"not-json", "{\"a\":"}

\* C3: a delivery whose payload is not valid JSON gets exactly one
\* nack(requeue=false), no ack, and the handler is never invoked for it.
InvalidJsonNackedOnce ==
  \A d \in 1..Len(deliveries) :
    deliveries[d].content.bytes \in InvalidJsonTexts =>
      /\ Len(deliveries[d].acks) = 1
      /\ Issued(d, 1) = IssuedNack(d, JsFalse)
      /\ deliveries[d].handler = <<>>

\* a truncated JSON text was delivered after a valid one
InvalidJsonNackedOnceWitness ==
  /\ Len(deliveries) = 2
  /\ deliveries[1].handler # <<>>
  /\ deliveries[2].content.bytes = "{\"a\":"

\* the done calls of delivery d made by its catch block
CatchCalls(d) ==
  {k \in 1..Len(deliveries[d].dones) : deliveries[d].dones[k].from = "catch"}

\* C4: a handler that throws synchronously instead of calling resolve is
\* caught: the delivery is nacked with requeue=false, and nothing propagates
\* to the transport that called the delivery callback.
HandlerThrowNacked ==
  \A d \in 1..Len(deliveries) :
    /\ ~deliveries[d].propagated
    /\ deliveries[d].threw =>
         /\ Cardinality(CatchCalls(d)) = 1
         /\ \A k \in CatchCalls(d) : Issued(d, k) = IssuedNack(d, JsFalse)
         /\ (\A k \in 1..Len(deliveries[d].dones) : k \in CatchCalls(d)) =>
              deliveries[d].acks = <<Nack(deliveries[d].acks[1].ch, d, JsFalse, JsFalse)>>

\* a handler was called with the parsed payload and threw without resolving
HandlerThrowNackedWitness ==
  \E d \in 1..Len(deliveries) :
    /\ deliveries[d].threw
    /\ deliveries[d].handler = <<JObj(<<JMember("a", JNum(1))>>)>>
    /\ Len(deliveries[d].dones) = 1

\* the operations of the steps connect call i has issued, in order
Ops(i) == [k \in 1..Len(conn[i].steps) |-> conn[i].steps[k].op]

\* C5: connect issues open connection, create confirm channel, declare
\* exchange, topology setup in this order, each only after the one before
\* succeeded; when a step fails none follows and cb gets that step's error.
ConnectStepsInOrder ==
  \A i \in ConnectIds :
    /\ \A k \in 1..Len(conn[i].steps) :
         /\ k = 1 => Ops(i)[k] = "connect"
         /\ k = 2 => Ops(i)[k] = "createConfirmChannel"
         /\ k = 3 => Ops(i)[k] = "assertExchange"
         /\ k > 3 => Ops(i)[k] \in {"setupForPublish", "setupForConsume"}
         /\ k > 1 => Len(conn[i].results) >= k - 1 /\ conn[i].results[k - 1] = Null
    /\ Len(conn[i].results) <= Len(conn[i].steps)
    /\ \A k \in 1..Len(conn[i].results) :
         conn[i].results[k] # Null =>
           /\ Len(conn[i].steps) = k
           /\ conn[i].cb = <<ErrOf(Ops(i)[k])>>

\* the exchange was declared, the first topology task failed, and cb got its
\* error
ConnectStepsInOrderWitness ==
  \E i \in ConnectIds :
    /\ Len(conn[i].results) = 4
    /\ conn[i].results[4] = ErrOf("setupForPublish")
    /\ conn[i].cb = <<ErrOf("setupForPublish")>>

\* connect call i issued all five transport steps and each succeeded
AllStepsSucceeded(i) ==
  /\ Ops(i) = <<"connect", "createConfirmChannel", "assertExchange",
                "setupForPublish", "setupForConsume">>
  /\ conn[i].results = <<Null, Null, Null, Null, Null>>

\* C6: with a publish list and a consume target configured, cb reports
\* success iff connect, channel creation, exchange declaration, publish-setup
\* and consume-setup all succeed, and then both topology tasks have
\* completed when cb fires.
ConnectSucceedsIffAllSteps ==
  ConfigIs(CfgBoth) =>
    \A i \in ConnectIds :
      /\ conn[i].cb # <<>> => (conn[i].cb[1] = Null <=> AllStepsSucceeded(i))
      /\ AllStepsSucceeded(i) => conn[i].cb = <<Null>>
      /\ conn[i].pc = "done" <=> conn[i].cb # <<>>

\* two connect calls on the full configuration: one succeeded, the other
\* failed in its consume-setup
ConnectSucceedsIffAllStepsWitness ==
  /\ ConfigIs(CfgBoth)
  /\ conn[1].cb = <<Null>>
  /\ conn[2].cb = <<ErrOf("setupForConsume")>>

\* no request of any kind has reached the transport
NoTransportCall ==
  /\ \A i \in ConnectIds : conn[i].steps = <<>>
  /\ pubs = <<>>
  /\ consumeLog = <<>>
  /\ deliveries = <<>>

\* C7: with a configuration that is absent, or has no url, or has no
\* exchange, construction throws, and no transport call is ever issued.
InvalidConfigNoTransport ==
  gw # "none" /\ (ConfigIs(CfgAbsent) \/ ConfigIs(CfgNoUrl) \/ ConfigIs(CfgNoExchange)) =>
    /\ gw = "threw"
    /\ last.op = "module.exports"
    /\ last.threw = "Error: amqp-wrapper: Invalid config"
    /\ NoTransportCall

\* construction was tried with a configuration that has a url and no exchange
InvalidConfigNoTransportWitness ==
  gw = "threw" /\ ConfigIs(CfgNoExchange)

\* the bytes each message of Messages is published as
WireText(message) ==
  CASE message = JStr("hello") -> "hello"
    [] message = JObj(<<JMember("id", JNum(1))>>) -> "{\"id\":1}"
    [] message = JNull -> "null"

\* the last call was publishToQueue, on a gateway that has its channel, with
\* a name the configured publish list holds
PublishedByName ==
  /\ last.op = "publishToQueue"
  /\ last.chan # NoChannel
  /\ (ConfigIs(CfgBoth) \/ ConfigIs(CfgPublishOnly))
  /\ last.name \in {"orders", "audit"}

\* C8: publishToQueue(name, message) with a configured name issues exactly
\* one publish to the configured exchange, with the routing key of the first
\* target of that name, a string unchanged and a structured message as its
\* JSON text.
PublishToQueueFirstMatch ==
  PublishedByName =>
    /\ last.threw = "none"
    /\ Len(pubs) = last.pubsBefore + 1
    /\ pubs[Len(pubs)] =
         Pub(last.chan, "ex",
             IF last.name = "orders" THEN "orders.created" ELSE "audit.log",
             [bytes |-> WireText(last.message)], "{}", last.callback)

\* {id: 1} was published to "orders", a name two targets have
PublishToQueueFirstMatchWitness ==
  /\ PublishedByName
  /\ last.name = "orders"
  /\ last.message = JObj(<<JMember("id", JNum(1))>>)
  /\ pubs # <<>>

\* the last call was publishToQueue with a name no configured target has
PublishedByUnknownName ==
  /\ last.op = "publishToQueue"
  /\ ~((ConfigIs(CfgBoth) \/ ConfigIs(CfgPublishOnly)) /\ last.name \in {"orders", "audit"})

\* C9 as stated: publishToQueue with a name that matches no target still
\* issues a publish, with an undefined routing key (on a gateway that has its
\* channel and whose configuration has a queues object).
UnknownNamePublishesUndefinedKey ==
  PublishedByUnknownName /\ last.chan # NoChannel /\ config.hasQueues =>
    /\ Len(pubs) = last.pubsBefore + 1
    /\ pubs[Len(pubs)].routingKey = Undefined

\* C9 as amended: publishToQueue with a name that matches no target throws a
\* TypeError and issues no publish.
UnknownNameThrows ==
  PublishedByUnknownName =>
    /\ last.threw = "TypeError"
    /\ Len(pubs) = last.pubsBefore

\* "missing" was published to on a gateway that has its channel and a
\* publish list
UnknownNameThrowsWitness ==
  /\ PublishedByUnknownName
  /\ last.name = "missing"
  /\ last.chan # NoChannel
  /\ ConfigIs(CfgBoth)

\* C10: publish(routingKey, message, options, callback) issues exactly one
\* publish to the configured exchange, with the caller's routing key, options
\* and callback unchanged, a string unchanged and a structured message as its
\* JSON text.
PublishForwardsArguments ==
  last.op = "publish" /\ last.chan # NoChannel =>
    /\ last.threw = "none"
    /\ Len(pubs) = last.pubsBefore + 1
    /\ pubs[Len(pubs)] =
         Pub(last.chan, "ex", last.name, [bytes |-> WireText(last.message)],
             last.options, last.callback)

\* {id: 1} was published with options and the callback cbB
PublishForwardsArgumentsWitness ==
  /\ last.op = "publish"
  /\ last.message = JObj(<<JMember("id", JNum(1))>>)
  /\ last.options = "{persistent: true}"
  /\ last.callback = "cbB"
  /\ pubs # <<>>

\* the deliveries handed to the dispatcher that have no ack or nack yet
Outstanding == {d \in 1..Len(deliveries) : deliveries[d].acks = <<>>}

\* the prefetch count each configuration asks for: CfgConsumeOnly gives 1,
\* the others omit it
ConfiguredPrefetch == IF ConfigIs(CfgConsumeOnly) THEN 1 ELSE 10

TopologyTasksStartTogether ==
  ConfigIs(CfgBoth) =>
    \A i \in ConnectIds :
      (\E k \in 1..Len(conn[i].steps) : Ops(i)[k] = "setupForPublish")
        => (\E k \in 1..Len(conn[i].steps) : Ops(i)[k] = "setupForConsume")

\* C12, as the code has it: the two tasks run one after the other, publish-
\* setup first; consume-setup is started only after publish-setup has
\* succeeded, and never when publish-setup failed or is still running.
TopologyTasksInSeries ==
  ConfigIs(CfgBoth) =>
    \A i \in ConnectIds :
      /\ \A k \in 1..Len(conn[i].steps) :
           /\ Ops(i)[k] = "setupForPublish" => k = 4
           /\ Ops(i)[k] = "setupForConsume" =>
                /\ k = 5
                /\ Len(conn[i].results) >= 4
                /\ conn[i].results[4] = Null
      /\ (Len(conn[i].results) >= 3 /\ conn[i].results[3] = Null)
           => Len(conn[i].steps) >= 4

\* publish-setup has succeeded and consume-setup is running
TopologyTasksInSeriesWitness ==
  /\ ConfigIs(CfgBoth)
  /\ \E i \in ConnectIds :
       /\ conn[i].pc = "runningTask"
       /\ Ops(i) = <<"connect", "createConfirmChannel", "assertExchange",
                     "setupForPublish", "setupForConsume">>
       /\ conn[i].results = <<Null, Null, Null, Null>>

\* the configurations with a queues object whose publish target list is
\* absent or is not an ordered list
PublishSetupSkipped ==
  ConfigIs(CfgConsumeOnly) \/ ConfigIs(CfgEmptyQueues) \/ ConfigIs(CfgPublishObject)

\* the configurations with a queues object whose consume target is absent or
\* has an empty queue name
ConsumeSetupSkipped ==
  ConfigIs(CfgPublishOnly) \/ ConfigIs(CfgEmptyQueues) \/ ConfigIs(CfgPublishObject)

\* connect call i has started the topology task op
Started(i, op) == \E k \in 1..Len(conn[i].steps) : Ops(i)[k] = op

Failed(d) ==
  \/ ~JSONParse(BufferToString(deliveries[d].content)).ok
  \/ deliveries[d].threw
  \/ \E k \in 1..Len(deliveries[d].dones) :
       deliveries[d].dones[k].from = "handler" /\ Truthy(deliveries[d].dones[k].err)

\* delivery d was decoded and, when it decoded, handed to the handler
Dispatched(d) ==
  LET parsed == JSONParse(BufferToString(deliveries[d].content)) IN
  IF parsed.ok THEN deliveries[d].handler = <<parsed.value>>
  ELSE deliveries[d].handler = <<>>

\* C14: a failure of one delivery never stops the dispatcher: no exception
\* leaves the delivery callback, and every delivery after a failed one is
\* still decoded and, if it decodes, passed to the handler.
FailureNeverStopsDispatcher ==
  /\ DispatcherRunning
  /\ \A d \in 1..Len(deliveries) :
       (\E e \in 1..(d - 1) : Failed(e)) => Dispatched(d)
  /\ \A ch \in ConnectIds :
       (/\ \E k \in 1..Len(consumeLog) : consumeLog[k].ch = ch
        /\ Len(deliveries) < MaxDeliveries
        /\ TransportMayDeliver(ch))
       => ENABLED (\E payload \in Payloads : Deliver(ch, payload))

\* the handler threw on the first delivery and was called with the payload
\* of the second
FailureNeverStopsDispatcherWitness ==
  /\ Len(deliveries) = 2
  /\ deliveries[1].threw
  /\ deliveries[2].handler # <<>>

\* C15: with several deliveries outstanding and their handlers resolving in
\* any order, each resolve call acks or nacks exactly the delivery it was
\* created for and no other: every ack and nack carries the tag of the
\* delivery whose resolve issued it, and a step that settles a delivery
\* leaves every other delivery as it was.
ResolveSettlesOwnDelivery ==
  [][/\ \A d \in 1..Len(deliveries') :
          \A k \in 1..Len(deliveries'[d].acks) : deliveries'[d].acks[k].tag = d
     /\ \A d \in 1..Len(deliveries) :
          deliveries'[d] # deliveries[d] =>
            /\ Len(deliveries') = Len(deliveries)
            /\ Len(deliveries'[d].acks) = Len(deliveries[d].acks) + 1
            /\ \A e \in 1..Len(deliveries) : e # d => deliveries'[e] = deliveries[e]]_vars

\* two deliveries were handed to the handler; the second has been resolved
\* while the first is still outstanding
ResolveSettlesOwnDeliveryWitness ==
  /\ Len(deliveries) = 2
  /\ deliveries[1].handler # <<>>
  /\ deliveries[1].acks = <<>>
  /\ deliveries[2].handler # <<>>
  /\ Len(deliveries[2].acks) = 1
  /\ deliveries[2].acks[1].tag = 2

\* the k-th done call of delivery record r has one of the three causes: a
\* resolve call of the handler, or the catch block after a failed decode or
\* after a throw of the handler
HasCause(r, k) ==
  \/ r.dones[k].from = "handler" /\ r.handler # <<>>
  \/ /\ r.dones[k].from = "catch"
     /\ \A j \in 1..Len(r.dones) : r.dones[j].from = "catch" => j = k
     /\ ~JSONParse(BufferToString(r.content)).ok \/ r.threw

\* C16: the dispatcher acks or nacks a delivery only in reaction to its
\* decode failure, its handler's synchronous throw, or a resolve call. A
\* delivery whose handler returned without calling resolve stays
\* unacknowledged through every later step that is not a resolve call for it
\* (there is no timeout), and a resolve call has its ack or nack issued in
\* the step of the call.
OnlyResolveSettles ==
  [][\A d \in 1..Len(deliveries') :
       /\ Len(deliveries'[d].acks) = Len(deliveries'[d].dones)
       /\ \A k \in 1..Len(deliveries'[d].dones) : HasCause(deliveries'[d], k)
       /\ (d <= Len(deliveries) /\ deliveries'[d].acks # deliveries[d].acks) =>
            /\ Len(deliveries'[d].dones) = Len(deliveries[d].dones) + 1
            /\ deliveries'[d].dones[Len(deliveries'[d].dones)].from = "handler"
            /\ calls'.resolve = calls.resolve + 1
       /\ (d <= Len(deliveries) /\ deliveries'[d].dones # deliveries[d].dones) =>
            Len(deliveries'[d].acks) = Len(deliveries[d].acks) + 1]_vars

\* the handler returned from the first delivery without a resolve call; the
\* delivery is still unacknowledged after a second one was received and
\* nacked for its payload
OnlyResolveSettlesWitness ==
  /\ Len(deliveries) = 2
  /\ deliveries[1].handler # <<>>
  /\ ~deliveries[1].threw
  /\ deliveries[1].dones = <<>>
  /\ deliveries[1].acks = <<>>
  /\ deliveries[2].handler = <<>>
  /\ Len(deliveries[2].acks) = 1

\* C17: the channel handle is created once and never recreated: once it is
\* assigned, no later step replaces or clears it, a failing setup step and a
\* retried connect included.
ChannelNeverReplaced ==
  [][channel # NoChannel => channel' = channel]_vars

\* connect call i waits for the completion of a transport step
StepPending(i) ==
  conn[i].pc \in {"connecting", "creatingChannel", "assertingExchange", "runningTask"}

\* C18: for any connect call and any outcome of its transport steps, cb is
\* invoked exactly once: never twice, and once no step is pending any more
\* it has been invoked, also when a topology task fails and when no topology
\* task is configured.
CallbackExactlyOnce ==
  \A i \in ConnectIds :
    /\ Len(conn[i].cb) <= 1
    /\ (conn[i].pc # "idle" /\ ~StepPending(i)) => Len(conn[i].cb) = 1

\* C19: every ack and nack is issued on the channel on which its delivery
\* was received, in every interleaving, a connect retried while deliveries of
\* the earlier channel are unresolved included.
AckOnDeliveryChannel ==
  \A d \in 1..Len(deliveries) :
    \A k \in 1..Len(deliveries[d].acks) :
      deliveries[d].acks[k].ch = deliveries[d].ch

\* C20: no publish and no consume registration reaches the transport unless
\* connect has already reported success: none while the exchange declaration
\* or the topology setup is still running, and none after connect reported
\* an error.
NoTransportBeforeConnected ==
  (pubs # <<>> \/ consumeLog # <<>>) => conn[1].cb = <<Null>>

====
